---- MODULE Spec2Model ----
(***************************************************************************)
(* Dzener Linux Edition (src/linux_app/dzener_linux.py): the JSON-backed   *)
(* user profile, its load / save / export, URL validation, task            *)
(* submission and the point accounting of the exchange simulator.          *)
(*                                                                         *)
(* One program invocation is: start -> load_state -> operations of the     *)
(* chosen front end (CLI menu, Tk GUI or --process N) -> exit.  The files  *)
(* under ~/.dzener-linux outlive the invocation; the in-memory profile     *)
(* does not.                                                               *)
(*                                                                         *)
(* Timestamps are integers: _iso_now() reads the wall clock, and every     *)
(* read returns a larger value than the one before it.  Strings of the     *)
(* Russian user interface are written in Latin letters.                    *)
(***************************************************************************)
EXTENDS Integers, Sequences, FiniteSets, TLC

VARIABLES
    pc,         \* "start" | "running" | "crashed" | "exit": where the invocation is
    mode,       \* "cli" | "gui" | "process": the front end main() chose
    state,      \* the in-memory UserState
    file,       \* content of DATA_FILE (~/.dzener-linux/state.json)
    corrupted,  \* content of state.corrupted.json
    export,     \* content of tasks_export.json
    clock,      \* the wall clock, as the next value _iso_now() returns
    batch,      \* the list generate_exchange_tasks returned to the last process_tasks
    report,     \* the ProcessReport the last process_tasks returned
    lastOp,     \* name of the last operation that ran
    lastUrl     \* the URL the last add_task / gui_add_task was given ("" otherwise)

vars == <<pc, mode, state, file, corrupted, export, clock, batch, report, lastOp, lastUrl>>

----------------------------------------------------------------------------
(* Bounds of the model *)

\* No operation starts once the clock has reached MaxClock.
MaxClock == 6
\* add_task is not offered once the list holds MaxTasks tasks.
MaxTasks == 2
\* A hand-edited state.json holds at most MaxFileTasks task records.
MaxFileTasks == 2

----------------------------------------------------------------------------
(* Program constants *)

POINTS_PER_TASK == 2
EXCHANGE_TASK_COUNT == 6

DEFAULT_ACTION == "dochityvanie/dosmotr"

ACTION_CODES == <<"1", "2", "3", "4", "5", "6", "7">>

ACTION_CATALOG ==
    ("1" :> "dochityvanie/dosmotr") @@ ("2" :> "lajk") @@ ("3" :> "dizlajk") @@
    ("4" :> "podpiska") @@ ("5" :> "sohranenie v zakladki") @@
    ("6" :> "kommentarij") @@ ("7" :> "lajk/dizlajk kommentariya")

----------------------------------------------------------------------------
(* Python helpers *)

\* dict.get(key, default)
get(d, k, default) == IF k \in DOMAIN d THEN d[k] ELSE default

\* max with the clamp lost: the second argument as it is
max_unclamped(a, b) == b

\* max(a, b)
max(a, b) == IF a >= b THEN a ELSE b

\* str.endswith on a string held as a sequence of characters
endswith(s, suffix) ==
    /\ Len(suffix) <= Len(s)
    /\ SubSeq(s, Len(s) - Len(suffix) + 1, Len(s)) = suffix

\* str.lower, character by character
lowerChar(c) ==
    CASE c = "D" -> "d" [] c = "Z" -> "z" [] c = "E" -> "e" [] c = "N" -> "n"
      [] c = "R" -> "r" [] c = "U" -> "u" [] c = "M" -> "m"
      [] OTHER -> c

lower(s) == [i \in 1..Len(s) |-> lowerChar(s[i])]

EmptyDict == <<>>

----------------------------------------------------------------------------
(* URL validation *)

\* The URLs a user types, and what urllib.parse.urlparse makes of each:
\* the scheme, and the netloc as a sequence of characters.
Urls ==
    {"https://dzen.ru/a/x",
     "https://zen.yandex.ru/media/y",
     "http://dzen.ru/a/x",
     "https://example.com/a/x",
     "https://notdzen.ru/a/x",
     "https://M.DZEN.RU/a/x",
     "dzen.ru/a/x"}

urlparse(url) ==
    CASE url = "https://dzen.ru/a/x" ->
            [scheme |-> "https", netloc |-> <<"d", "z", "e", "n", ".", "r", "u">>]
      [] url = "https://zen.yandex.ru/media/y" ->
            [scheme |-> "https", netloc |-> <<"z", "e", "n", ".", "y", "a", "n", "d", "e", "x", ".", "r", "u">>]
      [] url = "http://dzen.ru/a/x" ->
            [scheme |-> "http", netloc |-> <<"d", "z", "e", "n", ".", "r", "u">>]
      [] url = "https://example.com/a/x" ->
            [scheme |-> "https", netloc |-> <<"e", "x", "a", "m", "p", "l", "e", ".", "c", "o", "m">>]
      [] url = "https://notdzen.ru/a/x" ->
            [scheme |-> "https", netloc |-> <<"n", "o", "t", "d", "z", "e", "n", ".", "r", "u">>]
      [] url = "https://M.DZEN.RU/a/x" ->
            [scheme |-> "https", netloc |-> <<"M", ".", "D", "Z", "E", "N", ".", "R", "U">>]
      [] url = "dzen.ru/a/x" ->
            [scheme |-> "", netloc |-> <<>>]

ALLOWED_DZEN == <<"d", "z", "e", "n", ".", "r", "u">>
ALLOWED_ZEN_YANDEX == <<"z", "e", "n", ".", "y", "a", "n", "d", "e", "x", ".", "r", "u">>

validate_url(url) ==
    LET parsed == urlparse(url)
        host == lower(parsed.netloc)
    IN  IF parsed.scheme # "https" \/ parsed.netloc = <<>>
        THEN FALSE
        ELSE endswith(host, ALLOWED_DZEN) \/ endswith(host, ALLOWED_ZEN_YANDEX)

----------------------------------------------------------------------------
(* The files under DATA_DIR *)

\* What a file holds: nothing (no file, or no directory), something that
\* cannot be read (OSError), bytes that are not UTF-8, text that is not JSON,
\* a JSON array, or a JSON object (body: the dict json.loads returns).
Absent == [kind |-> "absent", body |-> EmptyDict]
Unreadable == [kind |-> "unreadable", body |-> EmptyDict]
Undecodable == [kind |-> "undecodable", body |-> EmptyDict]
Malformed == [kind |-> "malformed", body |-> EmptyDict]
JsonArray(n) == [kind |-> "json_array", body |-> [length |-> n]]
JsonObject(d) == [kind |-> "json_object", body |-> d]

\* Task records of a state.json that was written by hand or by another
\* version: complete, without "url", and with an empty "desired_actions"
\* and the remaining keys missing.
RawTaskFull ==
    [url |-> "https://dzen.ru/a/x", kind |-> "video", desired_actions |-> <<"lajk">>,
     owner |-> "u", created_at |-> 0]
RawTaskNoUrl == [kind |-> "video", owner |-> "u"]
RawTaskNoActions == [url |-> "https://zen.yandex.ru/media/y", desired_actions |-> <<>>]

RawTasks == {RawTaskFull, RawTaskNoUrl, RawTaskNoActions}

RawTaskLists == UNION {[1..n -> RawTasks] : n \in 0..MaxFileTasks}

\* The other keys of such a document: all missing, or negative counters.
RawHeaders ==
    {EmptyDict,
     [nickname |-> "u", points |-> -5, completed_tasks |-> -2, last_updated |-> 0]}

RawDocs ==
    RawHeaders \cup
    {h @@ [submitted_tasks |-> l] : h \in RawHeaders, l \in RawTaskLists}

InitFiles ==
    {Absent, Unreadable, Undecodable, Malformed, JsonArray(0), JsonArray(1)} \cup
    {JsonObject(d) : d \in RawDocs}

----------------------------------------------------------------------------
(* Loading *)

_default_state(now) ==
    [nickname |-> "linux-user", points |-> 0, submitted_tasks |-> <<>>,
     completed_tasks |-> 0, last_updated |-> now]

\* What _load_json_state does with the file f: the value it returns (raw),
\* the exception that leaves it (exc, "none" if it returns), and whether it
\* tries to rename the file to state.corrupted.json.
_load_json_state(f) ==
    CASE f.kind = "absent" ->
            [exc |-> "none", raw |-> JsonObject(EmptyDict), rename |-> FALSE]
      [] f.kind \in {"unreadable", "malformed"} ->
            \* OSError / json.JSONDecodeError: caught
            [exc |-> "none", raw |-> JsonObject(EmptyDict), rename |-> TRUE]
      [] f.kind = "undecodable" ->
            \* UnicodeDecodeError: a ValueError, caught by neither clause
            [exc |-> "UnicodeDecodeError", raw |-> JsonObject(EmptyDict), rename |-> FALSE]
      [] OTHER ->
            [exc |-> "none", raw |-> f, rename |-> FALSE]

\* Python's truth value of the value json.loads returned
truthy(raw) ==
    IF raw.kind = "json_array" THEN raw.body.length > 0 ELSE DOMAIN raw.body # {}

\* The loop with break in place of continue: it ends at the first record
\* without a "url".
RECURSIVE load_tasks_abort(_, _, _, _)
load_tasks_abort(raws, nickname, tasks, now) ==
    IF raws = <<>> \/ "url" \notin DOMAIN Head(raws)
    THEN [tasks |-> tasks, now |-> now]
    ELSE LET task_raw == Head(raws) IN
         load_tasks_abort(Tail(raws), nickname,
            Append(tasks,
              [url |-> task_raw["url"],
               kind |-> get(task_raw, "kind", "article"),
               desired_actions |-> get(task_raw, "desired_actions", <<DEFAULT_ACTION>>),
               owner |-> get(task_raw, "owner", nickname),
               created_at |-> get(task_raw, "created_at", now)]),
            now + 1)

\* The loop over raw["submitted_tasks"]: each record with a "url" becomes a
\* Task (one clock read each, for the default of created_at), each record
\* without one raises KeyError and is skipped.
RECURSIVE load_tasks(_, _, _, _)
load_tasks(raws, nickname, tasks, now) ==
    IF raws = <<>> THEN [tasks |-> tasks, now |-> now]
    ELSE LET task_raw == Head(raws) IN
         IF "url" \notin DOMAIN task_raw
         THEN load_tasks(Tail(raws), nickname, tasks, now)
         ELSE load_tasks(Tail(raws), nickname,
                Append(tasks,
                  [url |-> task_raw["url"],
                   kind |-> get(task_raw, "kind", "article"),
                   desired_actions |-> get(task_raw, "desired_actions", <<DEFAULT_ACTION>>),
                   owner |-> get(task_raw, "owner", nickname),
                   created_at |-> get(task_raw, "created_at", now)]),
                now + 1)

\* load_state on the file f with the clock at now: the exception that leaves
\* it (exc), the profile it returns (st) and the clock afterwards.
load_state(f, now) ==
    LET js == _load_json_state(f)
        raw == js.raw
    IN  IF js.exc # "none"
        THEN [exc |-> js.exc, st |-> _default_state(now), now |-> now]
        ELSE IF ~truthy(raw)
        THEN [exc |-> "none", st |-> _default_state(now), now |-> now + 1]
        ELSE IF raw.kind # "json_object"
        THEN \* raw.get on a list
             [exc |-> "AttributeError", st |-> _default_state(now), now |-> now]
        ELSE LET d == raw.body
                 loaded == load_tasks(get(d, "submitted_tasks", <<>>),
                                      get(d, "nickname", "linux-user"), <<>>, now)
             IN  [exc |-> "none",
                  st |-> [nickname |-> get(d, "nickname", "linux-user"),
                          points |-> max(0, get(d, "points", 0)),
                          submitted_tasks |-> loaded.tasks,
                          completed_tasks |-> max(0, get(d, "completed_tasks", 0)),
                          last_updated |-> get(d, "last_updated", loaded.now)],
                  now |-> loaded.now + 1]

----------------------------------------------------------------------------
(* Saving *)

\* dataclasses.asdict of a Task and of a UserState: the dict json.dumps writes
asdict_task(t) ==
    [url |-> t.url, kind |-> t.kind, desired_actions |-> t.desired_actions,
     owner |-> t.owner, created_at |-> t.created_at]

\* asdict of a profile whose completed_tasks is not written
asdict_no_completed(st) ==
    [nickname |-> st.nickname,
     points |-> st.points,
     submitted_tasks |-> [i \in 1..Len(st.submitted_tasks) |-> asdict_task(st.submitted_tasks[i])],
     last_updated |-> st.last_updated]

asdict(st) ==
    [nickname |-> st.nickname,
     points |-> st.points,
     submitted_tasks |-> [i \in 1..Len(st.submitted_tasks) |-> asdict_task(st.submitted_tasks[i])],
     completed_tasks |-> st.completed_tasks,
     last_updated |-> st.last_updated]

\* save_state(st) with the clock at now: stamps last_updated on the profile
\* and replaces state.json by the whole profile.
save_state(st, now) ==
    /\ state' = [st EXCEPT !.last_updated = now]
    /\ file' = JsonObject(asdict(state'))

----------------------------------------------------------------------------
(* Submitting and removing tasks *)

\* What the user types at the prompts
KindInputs == {"video", "podcast"}
ActionInputs == {<<"">>, <<"4", "9", "2">>}
IndexInputs == {"x", "0", "1", "2", "3"}
ConfirmInputs == {"yes", "no"}
\* The check boxes ticked in the GUI, and its radio button
GuiSelections == {{}, {"2", "4"}}
GuiKinds == {"article", "video"}

\* [ACTION_CATALOG[c] for c in codes if c in ACTION_CATALOG]
RECURSIVE catalog_titles(_)
catalog_titles(codes) ==
    IF codes = <<>> THEN <<>>
    ELSE IF Head(codes) \in DOMAIN ACTION_CATALOG
         THEN <<ACTION_CATALOG[Head(codes)]>> \o catalog_titles(Tail(codes))
         ELSE catalog_titles(Tail(codes))

\* input_actions, given the items of the typed line split at the commas
input_actions(items) ==
    LET codes == SelectSeq(items, LAMBDA item : item # "")
        actions == catalog_titles(codes)
    IN  IF actions = <<>> THEN <<DEFAULT_ACTION>> ELSE actions

\* DzenerGUI.selected_actions, given the set of ticked boxes (by catalog code)
selected_actions(ticked) ==
    LET selected == catalog_titles(SelectSeq(ACTION_CODES, LAMBDA c : c \in ticked))
    IN  IF selected = <<>> THEN <<DEFAULT_ACTION>> ELSE selected

\* str.isdigit and int of the typed index
isdigit(s) == s \in {"0", "1", "2", "3"}
int(s) == CASE s = "0" -> 0 [] s = "1" -> 1 [] s = "2" -> 2 [] s = "3" -> 3

\* list.pop(idx), idx counted from 0
pop(seq, idx) == SubSeq(seq, 1, idx) \o SubSeq(seq, idx + 2, Len(seq))

\* add_task that appends and saves before it looks at the URL
add_task_unchecked(url, kind_in, items) ==
    /\ pc = "running" /\ mode = "cli" /\ clock < MaxClock
    /\ lastOp' = "add_task" /\ lastUrl' = url
    /\ UNCHANGED <<pc, mode, corrupted, export, batch, report>>
    /\ Len(state.submitted_tasks) < MaxTasks
    /\ LET kind == IF kind_in \notin {"article", "video"} THEN "article" ELSE kind_in
           task == [url |-> url, kind |-> kind, desired_actions |-> input_actions(items),
                    owner |-> state.nickname, created_at |-> clock]
       IN  save_state([state EXCEPT !.submitted_tasks = Append(@, task)], clock + 1)
    /\ clock' = clock + 2

\* add_task (CLI menu 1)
add_task(url, kind_in, items) ==
    /\ pc = "running" /\ mode = "cli" /\ clock < MaxClock
    /\ lastOp' = "add_task" /\ lastUrl' = url
    /\ UNCHANGED <<pc, mode, corrupted, export, batch, report>>
    /\ IF ~validate_url(url)
       THEN UNCHANGED <<state, file, clock>>
       ELSE /\ Len(state.submitted_tasks) < MaxTasks
            /\ LET kind == IF kind_in \notin {"article", "video"} THEN "article" ELSE kind_in
                   task == [url |-> url, kind |-> kind, desired_actions |-> input_actions(items),
                            owner |-> state.nickname, created_at |-> clock]
               IN  save_state([state EXCEPT !.submitted_tasks = Append(@, task)], clock + 1)
            /\ clock' = clock + 2

\* DzenerGUI.gui_add_task (the "add" button)
gui_add_task(url, kind_var, ticked) ==
    /\ pc = "running" /\ mode = "gui" /\ clock < MaxClock
    /\ lastOp' = "gui_add_task" /\ lastUrl' = url
    /\ UNCHANGED <<pc, mode, corrupted, export, batch, report>>
    /\ IF ~validate_url(url)
       THEN UNCHANGED <<state, file, clock>>
       ELSE /\ Len(state.submitted_tasks) < MaxTasks
            /\ LET task == [url |-> url, kind |-> kind_var,
                            desired_actions |-> selected_actions(ticked),
                            owner |-> state.nickname, created_at |-> clock]
               IN  save_state([state EXCEPT !.submitted_tasks = Append(@, task)], clock + 1)
            /\ clock' = clock + 2

\* remove_task (CLI menu 4)
remove_task(raw_idx) ==
    /\ pc = "running" /\ mode = "cli" /\ clock < MaxClock
    /\ lastOp' = "remove_task" /\ lastUrl' = ""
    /\ UNCHANGED <<pc, mode, corrupted, export, batch, report>>
    /\ IF state.submitted_tasks = <<>> \/ ~isdigit(raw_idx)
       THEN UNCHANGED <<state, file, clock>>
       ELSE LET idx == int(raw_idx) - 1 IN
            IF idx < 0 \/ idx >= Len(state.submitted_tasks)
            THEN UNCHANGED <<state, file, clock>>
            ELSE /\ save_state([state EXCEPT !.submitted_tasks = pop(@, idx)], clock)
                 /\ clock' = clock + 1

----------------------------------------------------------------------------
(* The exchange simulator *)

demo_urls ==
    <<"https://dzen.ru/a/demo_article_1", "https://dzen.ru/video/watch/demo_2",
      "https://zen.yandex.ru/media/demo_3", "https://dzen.ru/a/demo_article_4">>
users == <<"alice", "bob", "charlie", "mike">>
extra_actions == <<"lajk", "podpiska", "sohranenie v zakladki">>

\* "video" in url
has_video(url) == url = "https://dzen.ru/video/watch/demo_2"

\* random.choice(seq): the random source is a seed, and draw k of a run
\* picks element k of the sequence, counted cyclically.
choice(seq, k) == seq[(k % Len(seq)) + 1]

\* The seeds of the random source, and the N of --process N
Seeds == {0, 29}
Amounts == {-1, 0, 1, 6}

generate_exchange_tasks(amount, seed, now) ==
    [i \in 1..max(1, amount) |->
        LET url == choice(demo_urls, seed + i) IN
        [url |-> url,
         kind |-> IF has_video(url) THEN "video" ELSE "article",
         desired_actions |-> <<DEFAULT_ACTION, choice(extra_actions, (seed \div 4) + i)>>,
         owner |-> choice(users, (seed \div 12) + 2 * i),
         created_at |-> now + i - 1]]

\* The reward given once for the batch instead of once per task
credit_once(st, tasks) ==
    IF tasks = <<>> THEN st
    ELSE [st EXCEPT !.points = @ + POINTS_PER_TASK, !.completed_tasks = @ + 1]

\* The loop of process_tasks over the generated tasks
RECURSIVE credit(_, _)
credit(st, tasks) ==
    IF tasks = <<>> THEN st
    ELSE credit([st EXCEPT !.points = @ + POINTS_PER_TASK,
                           !.completed_tasks = @ + 1],
                Tail(tasks))

\* process_tasks without its save_state
process_tasks_unsaved(amount, seed) ==
    LET tasks == generate_exchange_tasks(amount, seed, clock) IN
    /\ clock < MaxClock
    /\ batch' = tasks
    /\ state' = credit(state, tasks)
    /\ clock' = clock + Len(tasks)
    /\ report' = [processed |-> Len(tasks), points_added |-> Len(tasks) * POINTS_PER_TASK]
    /\ lastOp' = "process_tasks" /\ lastUrl' = ""
    /\ UNCHANGED <<mode, file, corrupted, export>>

\* process_tasks(state, amount): generates, credits, saves, reports
process_tasks(amount, seed) ==
    LET tasks == generate_exchange_tasks(amount, seed, clock) IN
    /\ clock < MaxClock
    /\ batch' = tasks
    /\ save_state(credit(state, tasks), clock + Len(tasks))
    /\ clock' = clock + Len(tasks) + 1
    /\ report' = [processed |-> Len(tasks), points_added |-> Len(tasks) * POINTS_PER_TASK]
    /\ lastOp' = "process_tasks" /\ lastUrl' = ""
    /\ UNCHANGED <<mode, corrupted, export>>

\* CLI menu 2
cli_process_tasks(seed) ==
    /\ pc = "running" /\ mode = "cli"
    /\ process_tasks(EXCHANGE_TASK_COUNT, seed)
    /\ pc' = pc

\* DzenerGUI.gui_process_tasks
gui_process_tasks(seed) ==
    /\ pc = "running" /\ mode = "gui"
    /\ process_tasks(EXCHANGE_TASK_COUNT, seed)
    /\ pc' = pc

\* main() with --process N, after its load_state
main_process(amount, seed) ==
    /\ pc = "running" /\ mode = "process"
    /\ process_tasks(amount, seed)
    /\ pc' = "exit"

----------------------------------------------------------------------------
(* Export, reset, exit *)

\* export_tasks (CLI menu 5, GUI "export" button): writes tasks_export.json
export_tasks ==
    /\ pc = "running" /\ mode \in {"cli", "gui"} /\ clock < MaxClock
    /\ export' = [kind |-> "json_array",
                  body |-> [i \in 1..Len(state.submitted_tasks) |->
                                asdict_task(state.submitted_tasks[i])]]
    /\ lastOp' = "export_tasks" /\ lastUrl' = ""
    /\ UNCHANGED <<pc, mode, state, file, corrupted, clock, batch, report>>

\* reset_progress (CLI menu 6)
reset_progress(confirm) ==
    /\ pc = "running" /\ mode = "cli" /\ clock < MaxClock
    /\ lastOp' = "reset_progress" /\ lastUrl' = ""
    /\ UNCHANGED <<pc, mode, corrupted, export, batch, report>>
    /\ IF confirm # "yes"
       THEN UNCHANGED <<state, file, clock>>
       ELSE /\ save_state([state EXCEPT !.points = 0, !.completed_tasks = 0], clock)
            /\ clock' = clock + 1

\* CLI menu 8: saves and leaves the loop
cli_exit ==
    /\ pc = "running" /\ mode = "cli"
    /\ save_state(state, clock)
    /\ clock' = clock + 1
    /\ pc' = "exit"
    /\ lastOp' = "exit" /\ lastUrl' = ""
    /\ UNCHANGED <<mode, corrupted, export, batch, report>>

\* The GUI window is closed: mainloop returns, nothing is saved
gui_close ==
    /\ pc = "running" /\ mode = "gui"
    /\ pc' = "exit"
    /\ lastOp' = "exit" /\ lastUrl' = ""
    /\ UNCHANGED <<mode, state, file, corrupted, export, clock, batch, report>>

----------------------------------------------------------------------------
(* An invocation *)

Modes == {"cli", "gui", "process"}

\* The in-memory profile of an invocation that has not loaded one
NoState == _default_state(0)
NoReport == [processed |-> 0, points_added |-> 0]

\* run_cli / DzenerGUI.__init__ / main: state = load_state().  The rename of
\* an unreadable file succeeds or fails with OSError, which is ignored.
LoadState(rename_ok) ==
    LET js == _load_json_state(file)
        out == load_state(file, clock)
    IN  /\ pc = "start"
        /\ IF js.rename /\ rename_ok
           THEN file' = Absent /\ corrupted' = file
           ELSE UNCHANGED <<file, corrupted>>
        /\ IF out.exc = "none"
           THEN pc' = "running" /\ state' = out.st
           ELSE pc' = "crashed" /\ state' = state
        /\ clock' = out.now
        /\ lastOp' = "load_state" /\ lastUrl' = ""
        /\ UNCHANGED <<mode, export, batch, report>>

\* The program is started again
Start(m) ==
    /\ pc \in {"exit", "crashed"} /\ clock < MaxClock
    /\ pc' = "start" /\ mode' = m
    /\ state' = NoState /\ batch' = <<>> /\ report' = NoReport
    /\ lastOp' = "start" /\ lastUrl' = ""
    /\ UNCHANGED <<file, corrupted, export, clock>>

Init ==
    /\ pc = "start"
    /\ mode \in Modes
    /\ state = NoState
    /\ file \in InitFiles
    /\ corrupted = Absent
    /\ export = Absent
    /\ clock = 1
    /\ batch = <<>>
    /\ report = NoReport
    /\ lastOp = "start"
    /\ lastUrl = ""

Next ==
    \/ \E ok \in BOOLEAN : LoadState(ok)
    \/ \E m \in Modes : Start(m)
    \/ \E url \in Urls, k \in KindInputs, items \in ActionInputs : add_task(url, k, items)
    \/ \E url \in Urls, k \in GuiKinds, t \in GuiSelections : gui_add_task(url, k, t)
    \/ \E i \in IndexInputs : remove_task(i)
    \/ \E seed \in Seeds : cli_process_tasks(seed)
    \/ \E seed \in Seeds : gui_process_tasks(seed)
    \/ \E n \in Amounts, seed \in Seeds : main_process(n, seed)
    \/ export_tasks
    \/ \E c \in ConfirmInputs : reset_progress(c)
    \/ cli_exit
    \/ gui_close

Spec == Init /\ [][Next]_vars

----------------------------------------------------------------------------
(* Properties *)

AddOps == {"add_task", "gui_add_task"}

NonNegative(d) == get(d, "points", 0) >= 0 /\ get(d, "completed_tasks", 0) >= 0

\* A step that wrote a state document
Saved == file' # file /\ file'.kind = "json_object"

\* A step that ran load_state
Loaded == pc = "start" /\ lastOp' = "load_state"

\* The host is one of the two allowed domains or a subdomain of one
HostAllowed(host) ==
    \E d \in {ALLOWED_DZEN, ALLOWED_ZEN_YANDEX} :
        host = d \/ endswith(host, <<".">> \o d)

\* C1: round trip. Whenever save_state has written the state document,
\* load_state of that document succeeds and returns the points,
\* completed_tasks, nickname and submitted_tasks (every task, every field, in
\* order) of the saved profile, and a last_updated later than the one the
\* profile had before the save.
C1_RoundTrip ==
    [][Saved =>
        LET out == load_state(file', clock') IN
        /\ out.exc = "none"
        /\ out.st.points = state'.points
        /\ out.st.completed_tasks = state'.completed_tasks
        /\ out.st.nickname = state'.nickname
        /\ out.st.submitted_tasks = state'.submitted_tasks
        /\ out.st.last_updated > state.last_updated]_vars

\* C1 witness: an invocation has loaded a profile that an earlier one saved
\* after add_task put a task into it.
C1_Witness ==
    /\ lastOp = "load_state" /\ pc = "running"
    /\ Len(state.submitted_tasks) > 0
    /\ state.submitted_tasks[1].url = "https://M.DZEN.RU/a/x"
    /\ state.last_updated > state.submitted_tasks[1].created_at

\* C2: load_state never fails: whatever state.json holds, load_state returns
\* a profile with points >= 0 and completed_tasks >= 0.
C2_LoadNeverFails ==
    lastOp = "load_state" =>
        /\ pc = "running"
        /\ state.points >= 0
        /\ state.completed_tasks >= 0

\* C3 (as claimed): once a profile is loaded, the in-memory profile and the
\* persisted document both have points >= 0 and completed_tasks >= 0.
C3_NonNegativeEverywhere ==
    pc = "running" =>
        /\ state.points >= 0 /\ state.completed_tasks >= 0
        /\ file.kind = "json_object" => NonNegative(file.body)

\* C3 (amended): the in-memory profile has points >= 0 and
\* completed_tasks >= 0 in every state after load_state, and so has every
\* state document that save_state writes.
C3_NonNegativeAmended ==
    [][/\ pc' = "running" => state'.points >= 0 /\ state'.completed_tasks >= 0
       /\ Saved => NonNegative(file'.body)]_vars

\* C3 witness: a profile loaded from a document with negative counters has
\* been saved.
C3_Witness ==
    /\ pc = "running" /\ lastOp \notin {"load_state", "start"}
    /\ state.nickname = "u" /\ state.points = 0
    /\ file.kind = "json_object" /\ file.body = asdict(state)

\* C4: process_tasks adds len(batch) * POINTS_PER_TASK to points and
\* len(batch) to completed_tasks, reports them, and leaves submitted_tasks
\* as it was, in memory and in the document; a batch of 6 on a profile with
\* nothing earned gives 12 points and 6 completed tasks.
C4_RewardsExact ==
    [][lastOp' = "process_tasks" =>
        /\ state'.points = state.points + Len(batch') * POINTS_PER_TASK
        /\ state'.completed_tasks = state.completed_tasks + Len(batch')
        /\ report' = [processed |-> Len(batch'),
                      points_added |-> Len(batch') * POINTS_PER_TASK]
        /\ state'.submitted_tasks = state.submitted_tasks
        /\ file'.body.submitted_tasks = asdict(state).submitted_tasks
        /\ (state.points = 0 /\ state.completed_tasks = 0 /\ Len(batch') = 6)
              => (state'.points = 12 /\ state'.completed_tasks = 6)]_vars

\* C4 witness: a batch of six has been processed on a fresh default profile.
C4_Witness ==
    /\ lastOp = "process_tasks"
    /\ Len(batch) = 6
    /\ state.nickname = "linux-user" /\ state.submitted_tasks = <<>>
    /\ state.points = 12 /\ state.completed_tasks = 6
    /\ report = [processed |-> 6, points_added |-> 12]

C6_OnlyAllowedHosts ==
    (lastOp \in AddOps /\ validate_url(lastUrl)) =>
        /\ urlparse(lastUrl).scheme = "https"
        /\ HostAllowed(lower(urlparse(lastUrl).netloc))

C8_RejectedAddChangesNothing ==
    [][(lastOp' \in AddOps /\ ~validate_url(lastUrl')) =>
        /\ state' = state
        /\ file' = file
        /\ corrupted' = corrupted
        /\ export' = export]_vars

\* C8 witness: add_task has rejected a URL while the profile held a task.
C8_Witness ==
    /\ lastOp = "add_task" /\ ~validate_url(lastUrl)
    /\ Len(state.submitted_tasks) > 0

\* C9: every task of the loaded profile has a non-empty desired_actions.
C9_ActionsNonEmpty ==
    pc = "running" =>
        \A i \in 1..Len(state.submitted_tasks) :
            state.submitted_tasks[i].desired_actions # <<>>

\* C10: a load_state that finds state.json present but unparsable returns
\* the default profile, and the file is either renamed to
\* state.corrupted.json or (the rename failed) left where it was.
C10_UnparsableGivesDefault ==
    [][(Loaded /\ file.kind \in {"unreadable", "undecodable", "malformed"}) =>
        /\ pc' = "running"
        /\ state'.nickname = "linux-user"
        /\ state'.points = 0 /\ state'.completed_tasks = 0
        /\ state'.submitted_tasks = <<>>
        /\ \/ file' = Absent /\ corrupted' = file
           \/ file' = file /\ corrupted' = corrupted]_vars

====
